---- MODULE Spec2Model ----
(***************************************************************************)
(* Flavor Extractor Demo (src/app.py): a Streamlit script that is re-run   *)
(* from top to bottom after every user action.  The state that survives a  *)
(* script run is st.session_state and the values of the widgets; all other *)
(* names of the script are locals of one run.                              *)
(*                                                                         *)
(* Python str values are TLA+ strings (sequences of characters), so that   *)
(* `in`, split, slicing, strip, startswith, json.loads and json.dumps are  *)
(* computed character by character.  Python bytes are sequences of         *)
(* integers 0..255.  Python None is the record None.                       *)
(***************************************************************************)
EXTENDS Integers, Sequences, FiniteSets, TLC

None == [t |-> "None"]

(***************************************************************************)
(* Python str primitives                                                   *)
(***************************************************************************)
\* s[i-1:j] with 1-based positions i..j; out of range gives ""
Slice(s, i, j) ==
    IF i > j \/ i > Len(s) \/ j < 1 THEN ""
    ELSE SubSeq(s, IF i < 1 THEN 1 ELSE i, IF j > Len(s) THEN Len(s) ELSE j)

Char(s, i) == IF i < 1 \/ i > Len(s) THEN "" ELSE SubSeq(s, i, i)

Min(S) == CHOOSE x \in S : \A y \in S : x <= y

Max(S) == CHOOSE x \in S : \A y \in S : y <= x

\* the positions of s at which pat occurs
Occurrences(s, pat) ==
    {i \in 1..(Len(s) - Len(pat) + 1) : SubSeq(s, i, i + Len(pat) - 1) = pat}

\* pat in s
Contains(s, pat) == Occurrences(s, pat) # {}

\* s.startswith(p)
StartsWith(s, p) == Len(s) >= Len(p) /\ SubSeq(s, 1, Len(p)) = p

\* s.split(sep): left to right, occurrences that do not overlap
RECURSIVE Split(_, _)
Split(s, sep) ==
    IF ~Contains(s, sep) THEN <<s>>
    ELSE <<SubSeq(s, 1, Min(Occurrences(s, sep)) - 1)>>
         \o Split(SubSeq(s, Min(Occurrences(s, sep)) + Len(sep), Len(s)), sep)

First(seq) == seq[1]
Last(seq)  == seq[Len(seq)]

\* s[:n]
Prefix(s, n) == SubSeq(s, 1, IF Len(s) < n THEN Len(s) ELSE n)

WhiteSpace == {" ", "\n", "\t", "\r", "\f"}

\* the positions of s that hold no white space
Inked(s) == {i \in 1..Len(s) : SubSeq(s, i, i) \notin WhiteSpace}

\* s.strip()
Strip(s) == IF Inked(s) = {} THEN "" ELSE SubSeq(s, Min(Inked(s)), Max(Inked(s)))

\* parts[lo] \o parts[lo + 1] \o ... \o parts[hi], for strings
RECURSIVE Concat(_, _, _)
Concat(parts, lo, hi) ==
    IF lo > hi THEN ""
    ELSE IF lo = hi THEN parts[lo]
    ELSE Concat(parts, lo, (lo + hi) \div 2) \o Concat(parts, (lo + hi) \div 2 + 1, hi)

\* sep.join(parts)
Join(sep, parts) ==
    Concat([i \in 1..Len(parts) |-> IF i = 1 THEN parts[1] ELSE sep \o parts[i]],
           1, Len(parts))

Digits == <<"0", "1", "2", "3", "4", "5", "6", "7", "8", "9">>

IsDigit(c) == c \in {"0", "1", "2", "3", "4", "5", "6", "7", "8", "9"}

\* str(n) for an integer n
RECURSIVE IntToStr(_)
IntToStr(n) ==
    IF n < 0 THEN "-" \o IntToStr(0 - n)
    ELSE IF n < 10 THEN Digits[n + 1]
    ELSE IntToStr(n \div 10) \o Digits[(n % 10) + 1]

DigitValue(c) == CHOOSE d \in 0..9 : Digits[d + 1] = c

\* int(s) for a string of digits
RECURSIVE StrToInt(_)
StrToInt(s) ==
    IF Len(s) = 1 THEN DigitValue(s)
    ELSE 10 * StrToInt(SubSeq(s, 1, Len(s) - 1)) + DigitValue(SubSeq(s, Len(s), Len(s)))

(***************************************************************************)
(* base64.b64encode(data).decode("ascii")                                  *)
(***************************************************************************)
B64Alphabet == "ABCDEFGHIJKLMNOPQRSTUVWXYZabcdefghijklmnopqrstuvwxyz0123456789+/"

B64Char(n) == SubSeq(B64Alphabet, n + 1, n + 1)

RECURSIVE b64encode(_)
b64encode(data) ==
    IF Len(data) = 0 THEN ""
    ELSE IF Len(data) = 1 THEN
        B64Char(data[1] \div 4) \o B64Char((data[1] % 4) * 16) \o "=="
    ELSE IF Len(data) = 2 THEN
        B64Char(data[1] \div 4)
        \o B64Char((data[1] % 4) * 16 + data[2] \div 16)
        \o B64Char((data[2] % 16) * 4) \o "="
    ELSE
        B64Char(data[1] \div 4)
        \o B64Char((data[1] % 4) * 16 + data[2] \div 16)
        \o B64Char((data[2] % 16) * 4 + data[3] \div 64)
        \o B64Char(data[3] % 64)
        \o b64encode(SubSeq(data, 4, Len(data)))

(***************************************************************************)
(* JSON values as Python holds them after json.loads / resp.json():        *)
(*   None            [t |-> "None"]                                        *)
(*   bool            [t |-> "bool",  b |-> TRUE]                           *)
(*   int             [t |-> "int",   n |-> 42]                             *)
(*   float           [t |-> "float", lit |-> "1.5"]   (the literal read)   *)
(*   str             [t |-> "str",   s |-> "abc"]                          *)
(*   list            [t |-> "list",  a |-> <<v1, v2>>]                     *)
(*   dict            [t |-> "dict",  keys |-> <<"k1">>, vals |-> <<v1>>]   *)
(* keys are in insertion order and pairwise different.                     *)
(***************************************************************************)
JBool(b)  == [t |-> "bool", b |-> b]
JInt(n)   == [t |-> "int", n |-> n]
JFloat(l) == [t |-> "float", lit |-> l]
JStr(s)   == [t |-> "str", s |-> s]
JList(a)  == [t |-> "list", a |-> a]
JDict(ks, vs) == [t |-> "dict", keys |-> ks, vals |-> vs]

HasKey(d, k) == \E i \in 1..Len(d.keys) : d.keys[i] = k

\* d[k] for a key the dict has
Item(d, k) == d.vals[CHOOSE i \in 1..Len(d.keys) : d.keys[i] = k]

\* d[k] = v
SetItem(d, k, v) ==
    IF HasKey(d, k)
    THEN JDict(d.keys, [i \in 1..Len(d.keys) |-> IF d.keys[i] = k THEN v ELSE d.vals[i]])
    ELSE JDict(Append(d.keys, k), Append(d.vals, v))

(***************************************************************************)
(* json.loads(s), the decoder of the standard library in its default       *)
(* (strict) mode.  A result is [ok |-> TRUE, val |-> v, next |-> i] with i *)
(* the position after the value, or [ok |-> FALSE] for JSONDecodeError.    *)
(* \u escapes and \b are not decoded: the texts of this model have none.   *)
(***************************************************************************)
Fail == [ok |-> FALSE]
Ok(v, i) == [ok |-> TRUE, val |-> v, next |-> i]

JsonWS == {" ", "\t", "\n", "\r"}

\* the first position >= i of s that holds no white space, or Len(s) + 1
SkipWS(s, i) ==
    IF \E j \in i..Len(s) : SubSeq(s, j, j) \notin JsonWS
    THEN CHOOSE j \in i..Len(s) :
             /\ SubSeq(s, j, j) \notin JsonWS
             /\ \A k \in i..(j - 1) : SubSeq(s, k, k) \in JsonWS
    ELSE IF i > Len(s) THEN i ELSE Len(s) + 1

\* the first position >= i of s that holds no digit, or Len(s) + 1
SkipDigits(s, i) ==
    IF \E j \in i..Len(s) : ~IsDigit(SubSeq(s, j, j))
    THEN CHOOSE j \in i..Len(s) :
             /\ ~IsDigit(SubSeq(s, j, j))
             /\ \A k \in i..(j - 1) : IsDigit(SubSeq(s, k, k))
    ELSE IF i > Len(s) THEN i ELSE Len(s) + 1

\* the character an escape \c stands for, "" if there is no such escape
Unescape(c) ==
    CASE c = "\"" -> "\""
      [] c = "\\" -> "\\"
      [] c = "/"  -> "/"
      [] c = "n"  -> "\n"
      [] c = "r"  -> "\r"
      [] c = "t"  -> "\t"
      [] c = "f"  -> "\f"
      [] OTHER    -> ""

\* the number of backslashes of s that end at position k - 1, not before i
BackslashRun(s, i, k) ==
    CHOOSE n \in 0..(k - i) :
        /\ \A m \in 1..n : SubSeq(s, k - m, k - m) = "\\"
        /\ n = k - i \/ SubSeq(s, k - n - 1, k - n - 1) # "\\"

\* position p of the string literal that starts at i holds the character c,
\* and no backslash escapes it
Bare(s, i, p, c) == SubSeq(s, p, p) = c /\ BackslashRun(s, i, p) % 2 = 0

\* the position of the quote that closes the literal, 0 if there is none
ClosingQuote(s, i) ==
    IF \E k \in i..Len(s) : Bare(s, i, k, "\"")
    THEN CHOOSE k \in i..Len(s) :
             Bare(s, i, k, "\"") /\ \A j \in i..(k - 1) : ~Bare(s, i, j, "\"")
    ELSE 0

\* what position p of the literal gives to the decoded string
Piece(s, i, p) ==
    IF Bare(s, i, p, "\\") THEN ""
    ELSE IF p > i /\ Bare(s, i, p - 1, "\\") THEN Unescape(SubSeq(s, p, p))
    ELSE SubSeq(s, p, p)

\* the literal between positions i and k - 1, k the closing quote
StringBody(s, i, k) ==
    IF k = 0 THEN Fail
    ELSE IF \E p \in i..(k - 1) : SubSeq(s, p, p) \in {"\n", "\t", "\r", "\f"} THEN Fail
    ELSE IF \A p \in i..(k - 1) : SubSeq(s, p, p) # "\\"
         THEN Ok(JStr(SubSeq(s, i, k - 1)), k + 1)
    ELSE IF \E p \in i..(k - 2) : Bare(s, i, p, "\\") /\ Unescape(SubSeq(s, p + 1, p + 1)) = ""
         THEN Fail
    ELSE Ok(JStr(Concat([p \in i..(k - 1) |-> Piece(s, i, p)], i, k - 1)), k + 1)

\* the rest of a string literal from position i (after the opening quote)
ScanString(s, i) == StringBody(s, i, ClosingQuote(s, i))

\* (-?(?:0|[1-9]\d*))(\.\d+)?([eE][-+]?\d+)? matched at position i: d0 is
\* the position of the first digit, dEnd the end of the integer part, fEnd
\* of the fraction, eEnd of the exponent
NumberValue(s, i, d0, dEnd, eEnd) ==
    IF eEnd = dEnd
    THEN Ok(JInt((IF d0 > i THEN -1 ELSE 1) * StrToInt(SubSeq(s, d0, dEnd - 1))), dEnd)
    ELSE Ok(JFloat(SubSeq(s, i, eEnd - 1)), eEnd)

ExpDigits(s, fEnd) == IF Char(s, fEnd + 1) \in {"+", "-"} THEN fEnd + 2 ELSE fEnd + 1

ScanExp(s, i, d0, dEnd, fEnd) ==
    NumberValue(s, i, d0, dEnd,
                IF Char(s, fEnd) \in {"e", "E"} /\ IsDigit(Char(s, ExpDigits(s, fEnd)))
                THEN SkipDigits(s, ExpDigits(s, fEnd)) ELSE fEnd)

ScanFrac(s, i, d0, dEnd) ==
    IF dEnd = d0 THEN Fail
    ELSE ScanExp(s, i, d0, dEnd,
                 IF Char(s, dEnd) = "." /\ IsDigit(Char(s, dEnd + 1))
                 THEN SkipDigits(s, dEnd + 1) ELSE dEnd)

ScanInt(s, i, d0) ==
    ScanFrac(s, i, d0, IF Char(s, d0) = "0" THEN d0 + 1 ELSE SkipDigits(s, d0))

ScanNumber(s, i) == ScanInt(s, i, IF Char(s, i) = "-" THEN i + 1 ELSE i)

RECURSIVE ScanValue(_, _), ScanElements(_, _, _), ScanMembers(_, _, _)

\* after an element of an array, at position j: "]" or "," and the rest
NextElement(s, j, a) ==
    IF Char(s, j) = "]" THEN Ok(JList(a), j + 1)
    ELSE IF Char(s, j) = "," THEN ScanElements(s, SkipWS(s, j + 1), a)
    ELSE Fail

ElementDone(s, v, acc) ==
    IF ~v.ok THEN Fail ELSE NextElement(s, SkipWS(s, v.next), Append(acc, v.val))

\* the elements of an array, from the position of an element
ScanElements(s, i, acc) == ElementDone(s, ScanValue(s, i), acc)

\* after a member of an object, at position j: "}" or "," and the rest
NextMember(s, j, d) ==
    IF Char(s, j) = "}" THEN Ok(d, j + 1)
    ELSE IF Char(s, j) = "," THEN ScanMembers(s, SkipWS(s, j + 1), d)
    ELSE Fail

MemberDone(s, k, v, acc) ==
    IF ~v.ok THEN Fail ELSE NextMember(s, SkipWS(s, v.next), SetItem(acc, k, v.val))

\* after the key k of a member, at position c: ":" and the value
MemberValue(s, k, c, acc) ==
    IF Char(s, c) # ":" THEN Fail
    ELSE MemberDone(s, k, ScanValue(s, SkipWS(s, c + 1)), acc)

MemberKey(s, k, acc) ==
    IF ~k.ok THEN Fail ELSE MemberValue(s, k.val.s, SkipWS(s, k.next), acc)

\* the members of an object, from the position of a key
ScanMembers(s, i, acc) ==
    IF Char(s, i) # "\"" THEN Fail ELSE MemberKey(s, ScanString(s, i + 1), acc)

ScanObject(s, j) ==
    IF Char(s, j) = "}" THEN Ok(JDict(<<>>, <<>>), j + 1)
    ELSE ScanMembers(s, j, JDict(<<>>, <<>>))

ScanArray(s, j) ==
    IF Char(s, j) = "]" THEN Ok(JList(<<>>), j + 1) ELSE ScanElements(s, j, <<>>)

\* a literal: the word at position i stands for the value v
Word(s, i, word, v) ==
    IF Slice(s, i, i + Len(word) - 1) = word THEN Ok(v, i + Len(word)) ELSE Fail

ScanMinus(s, i) ==
    IF Char(s, i + 1) = "I" THEN Word(s, i, "-Infinity", JFloat("-Infinity"))
    ELSE ScanNumber(s, i)

ScanValue(s, i) ==
    CASE Char(s, i) = "\"" -> ScanString(s, i + 1)
      [] Char(s, i) = "{"  -> ScanObject(s, SkipWS(s, i + 1))
      [] Char(s, i) = "["  -> ScanArray(s, SkipWS(s, i + 1))
      [] Char(s, i) = "n"  -> Word(s, i, "null", None)
      [] Char(s, i) = "t"  -> Word(s, i, "true", JBool(TRUE))
      [] Char(s, i) = "f"  -> Word(s, i, "false", JBool(FALSE))
      [] Char(s, i) = "N"  -> Word(s, i, "NaN", JFloat("NaN"))
      [] Char(s, i) = "I"  -> Word(s, i, "Infinity", JFloat("Infinity"))
      [] Char(s, i) = "-"  -> ScanMinus(s, i)
      [] IsDigit(Char(s, i)) -> ScanNumber(s, i)
      [] OTHER -> Fail

\* the text must end after the value
Whole(s, v) == IF v.ok /\ SkipWS(s, v.next) > Len(s) THEN v ELSE Fail

\* JSONDecoder().decode(s)
decode(s) == Whole(s, ScanValue(s, SkipWS(s, 1)))

(***************************************************************************)
(* json.dumps(v, ensure_ascii=False, indent=2); with Compact, the server's *)
(* serialisation without white space.  A float is written as it was read.  *)
(***************************************************************************)
EscapeChar(c) ==
    CASE c = "\"" -> "\\\""
      [] c = "\\" -> "\\\\"
      [] c = "\n" -> "\\n"
      [] c = "\r" -> "\\r"
      [] c = "\t" -> "\\t"
      [] c = "\f" -> "\\f"
      [] OTHER    -> c

Quote(s) ==
    IF \A p \in 1..Len(s) : SubSeq(s, p, p) \notin {"\"", "\\", "\n", "\r", "\t", "\f"}
    THEN "\"" \o s \o "\""
    ELSE "\"" \o Concat([p \in 1..Len(s) |-> EscapeChar(SubSeq(s, p, p))], 1, Len(s)) \o "\""

RECURSIVE Spaces(_)
Spaces(n) == IF n <= 0 THEN "" ELSE " " \o Spaces(n - 1)

\* the line break and indentation before an entry of nesting level `level'
NewLine(indent, level) == IF indent < 0 THEN "" ELSE "\n" \o Spaces(indent * level)

\* a list or dict with the entries `entries', already serialised
Bracket(open, close, entries, indent, level) ==
    IF entries = <<>> THEN open \o close
    ELSE open \o Join(",", [i \in 1..Len(entries) |-> NewLine(indent, level + 1) \o entries[i]])
         \o NewLine(indent, level) \o close

RECURSIVE Dumps(_, _, _)
Dumps(v, indent, level) ==
    CASE v.t = "None"  -> "null"
      [] v.t = "bool"  -> IF v.b THEN "true" ELSE "false"
      [] v.t = "int"   -> IntToStr(v.n)
      [] v.t = "float" -> v.lit
      [] v.t = "str"   -> Quote(v.s)
      [] v.t = "list"  ->
            Bracket("[", "]", [i \in 1..Len(v.a) |-> Dumps(v.a[i], indent, level + 1)],
                    indent, level)
      [] v.t = "dict"  ->
            Bracket("{", "}",
                    [i \in 1..Len(v.keys) |->
                        Quote(v.keys[i]) \o (IF indent < 0 THEN ":" ELSE ": ")
                        \o Dumps(v.vals[i], indent, level + 1)],
                    indent, level)

json_dumps(v) == Dumps(v, 2, 0)

Compact(v) == Dumps(v, -1, 0)

(***************************************************************************)
(* Python object protocol on JSON values, and exceptions.  A function that *)
(* may raise returns Return(v) or Raise(e, msg).                           *)
(***************************************************************************)
Return(v)     == [exc |-> "", value |-> v]
Raise(e, msg) == [exc |-> e, msg |-> msg]

\* v.get(k, default) of a dict v
Get(v, k, default) == IF HasKey(v, k) THEN Item(v, k) ELSE default

\* v == s for a Python str s
IsStr(v, s) == v.t = "str" /\ v.s = s

\* for x in v: the values x, for the iterable types
IsIterable(v) == v.t \in {"list", "dict", "str"}

Iter(v) ==
    CASE v.t = "list" -> v.a
      [] v.t = "dict" -> [i \in 1..Len(v.keys) |-> JStr(v.keys[i])]
      [] v.t = "str"  -> [i \in 1..Len(v.s) |-> JStr(SubSeq(v.s, i, i))]

\* the part of a float literal before the exponent
Mantissa(lit) ==
    IF \E i \in 1..Len(lit) : SubSeq(lit, i, i) \in {"e", "E"}
    THEN SubSeq(lit, 1, Min({i \in 1..Len(lit) : SubSeq(lit, i, i) \in {"e", "E"}}) - 1)
    ELSE lit

\* bool(v)
Truthy(v) ==
    CASE v.t = "None"  -> FALSE
      [] v.t = "bool"  -> v.b
      [] v.t = "int"   -> v.n # 0
      [] v.t = "float" ->
            \/ v.lit \in {"NaN", "Infinity", "-Infinity"}
            \/ \E i \in 1..Len(Mantissa(v.lit)) :
                   IsDigit(SubSeq(v.lit, i, i)) /\ SubSeq(v.lit, i, i) # "0"
      [] v.t = "str"   -> v.s # ""
      [] v.t = "list"  -> v.a # <<>>
      [] v.t = "dict"  -> v.keys # <<>>
      [] v.t = "bytes" -> v.data # <<>>

\* f"{v}" for the scalar types
Format(v) ==
    CASE v.t = "None"  -> "None"
      [] v.t = "bool"  -> IF v.b THEN "True" ELSE "False"
      [] v.t = "int"   -> IntToStr(v.n)
      [] v.t = "float" -> v.lit
      [] v.t = "str"   -> v.s

(***************************************************************************)
(* src/app.py, the functions                                               *)
(***************************************************************************)
OPENAI_API_BASE == "https://api.openai.com/v1"

\* The two prompts are cut short: the script tests system_prompt for emptiness
\* (line 248) and sends both on unread.
SYSTEM_PROMPT == "### Role ..."

build_user_prompt == "You will be given ONE image of a vape/cannabis product package. ..."

required_fields ==
    << "flavors_list", "multiple_descriptors", "brand_name", "extraction_evidence",
       "nicotine_content", "size_or_volume", "warning_label_present",
       "warning_label_location", "main_color" >>

\* lines 87-89: the inner loop over item.get("content", [])
RECURSIVE CollectContent(_, _, _)
CollectContent(contents, i, texts) ==
    IF i > Len(contents) THEN Return(texts)
    ELSE IF contents[i].t # "dict" THEN Raise("AttributeError", "no attribute 'get'")
    ELSE IF IsStr(Get(contents[i], "type", None), "output_text")
         THEN CollectContent(contents, i + 1, Append(texts, Get(contents[i], "text", JStr(""))))
    ELSE CollectContent(contents, i + 1, texts)

\* lines 84-89: the loop over output
RECURSIVE CollectItems(_, _, _)
CollectItems(output, i, texts) ==
    IF i > Len(output) THEN Return(texts)
    ELSE IF output[i].t # "dict" THEN Raise("AttributeError", "no attribute 'get'")
    ELSE IF ~IsStr(Get(output[i], "type", None), "message")
         THEN CollectItems(output, i + 1, texts)
    ELSE IF ~IsIterable(Get(output[i], "content", JList(<<>>)))
         THEN Raise("TypeError", "not iterable")
    ELSE LET r == CollectContent(Iter(Get(output[i], "content", JList(<<>>))), 1, texts)
         IN  IF r.exc # "" THEN r ELSE CollectItems(output, i + 1, r.value)

\* line 90, for the texts [t for t in texts if t]
JoinTexts(kept) ==
    IF \E i \in 1..Len(kept) : kept[i].t # "str"
    THEN Raise("TypeError", "expected str instance")
    ELSE Return(Join("\n", [i \in 1..Len(kept) |-> kept[i].s]))

\* line 90 without the filter `if t': the variant C5_JoinsNonEmptyFragments
\* tells from the code
CollectedUnfiltered(r) == IF r.exc # "" THEN r ELSE JoinTexts(r.value)

\* line 90, for what the loops left in texts
Collected(r) == IF r.exc # "" THEN r ELSE JoinTexts(SelectSeq(r.value, Truthy))

extract_output_text(response_json) ==
    IF response_json.t # "dict" THEN Raise("AttributeError", "no attribute 'get'")
    ELSE IF ~IsIterable(Get(response_json, "output", JList(<<>>)))
         THEN Raise("TypeError", "not iterable")
    ELSE Collected(CollectItems(Iter(Get(response_json, "output", JList(<<>>))), 1, <<>>))

\* an uploaded file is None or [t |-> "file", type, data]
file_to_data_url(uploaded_file) ==
    IF uploaded_file = None THEN None
    ELSE IF uploaded_file.data = <<>> THEN None
    ELSE JStr("data:"
              \o (IF uploaded_file.type # "" THEN uploaded_file.type
                  ELSE "application/octet-stream")
              \o ";base64," \o b64encode(uploaded_file.data))

normalize_drive_url(url) ==
    IF ~Contains(url, "drive.google.com") THEN url
    ELSE IF Contains(url, "id=")
         THEN "https://drive.google.com/uc?export=download&id="
              \o First(Split(Last(Split(url, "id=")), "&"))
    ELSE IF Contains(url, "/file/d/")
         THEN "https://drive.google.com/uc?export=download&id="
              \o First(Split(Last(Split(url, "/file/d/")), "/"))
    ELSE url

(***************************************************************************)
(* HTTP.  A call of requests.get / requests.post ends in a response        *)
(*   [kind |-> "response", status_code, reason, headers, content, text]    *)
(* or in an exception of the transport                                     *)
(*   [kind |-> "exception", msg]          (msg is str(exc)).               *)
(* headers is a dict of str, content the body as bytes, text as str.       *)
(* A request is recorded as [method, url, authorization, image_url].       *)
(***************************************************************************)
Response(status, reason, headers, content, text) ==
    [kind |-> "response", status_code |-> status, reason |-> reason,
     headers |-> headers, content |-> content, text |-> text]

TransportError(msg) == [kind |-> "exception", msg |-> msg]

NoResponse == [kind |-> "none"]

\* resp.ok
RespOk(resp) == resp.status_code < 400

Bytes(data) == [t |-> "bytes", data |-> data]

\* lines 161-170, given what requests.get came back with;
\* the result is the tuple <<data, content_type, err>>
fetch_image_url(url, resp) ==
    IF resp.kind = "exception" THEN <<None, None, JStr(resp.msg)>>
    ELSE IF ~RespOk(resp)
         THEN <<None, None, JStr("HTTP " \o IntToStr(resp.status_code) \o " " \o resp.reason)>>
    ELSE IF ~StartsWith(Get(resp.headers, "Content-Type", JStr("")).s, "image/")
         THEN <<None, None,
                JStr("URL did not return an image (Content-Type: "
                     \o Get(resp.headers, "Content-Type", JStr("")).s \o ")")>>
    ELSE <<Bytes(resp.content), Get(resp.headers, "Content-Type", JStr("")), None>>

ImageRequest(url) ==
    [method |-> "GET", url |-> url, authorization |-> "", image_url |-> ""]

\* lines 174-186, given what requests.get came back with; the result is <<ok, msg>>
validate_api_key(api_key, resp) ==
    IF api_key = "" THEN <<FALSE, "Missing API key">>
    ELSE IF resp.kind = "exception" THEN <<FALSE, resp.msg>>
    ELSE IF RespOk(resp) THEN <<TRUE, "API key looks valid">>
    ELSE IF resp.status_code = 401 THEN <<FALSE, "Invalid API key">>
    ELSE <<FALSE, "HTTP " \o IntToStr(resp.status_code) \o " " \o resp.reason>>

ValidationRequest(api_key) ==
    [method |-> "GET", url |-> OPENAI_API_BASE \o "/models",
     authorization |-> "Bearer " \o api_key, image_url |-> ""]

\* the request call_openai sends (lines 99-119)
ExtractionRequest(api_key, system_prompt, user_prompt, image_url) ==
    [method |-> "POST", url |-> OPENAI_API_BASE \o "/responses",
     authorization |-> "Bearer " \o api_key, image_url |-> image_url]

(***************************************************************************)
(* The environment: what the user can enter and what the network can       *)
(* answer.                                                                 *)
(***************************************************************************)
NoHeaders == JDict(<<>>, <<>>)

ContentType(ct) == JDict(<<"Content-Type">>, <<JStr(ct)>>)

\* the responses with a JSON body, for triples <<status, reason, body>>
JsonResponses(answers) ==
    {Response(a[1], a[2], ContentType("application/json"), <<>>, Compact(a[3])) : a \in answers}

TextResponse(status, reason, text) ==
    Response(status, reason, ContentType("text/html"), <<>>, text)

\* the envelope of the Responses API
Envelope(items) == JDict(<<"id", "output">>, <<JStr("resp_1"), JList(items)>>)
Message(contents) == JDict(<<"type", "content">>, <<JStr("message"), JList(contents)>>)
OutputText(text) == JDict(<<"type", "text">>, <<JStr("output_text"), JStr(text)>>)
Refusal(text) == JDict(<<"type", "refusal">>, <<JStr("refusal"), JStr(text)>>)
Reasoning == JDict(<<"type", "summary">>, <<JStr("reasoning"), JList(<<>>)>>)

FullResult ==
    "{\"flavors_list\":[\"Strazzberry\"],\"multiple_descriptors\":\"0\","
    \o "\"brand_name\":\"STAR BUZZ\",\"extraction_evidence\":\"front\","
    \o "\"nicotine_content\":\"5%\",\"size_or_volume\":\"Not found\","
    \o "\"warning_label_present\":\"Yes\",\"warning_label_location\":\"top\","
    \o "\"main_color\":[\"red\"]}"

PartialResult == "{\"flavors_list\":[\"missing\"],\"brand_name\":\"Not found\"}"

Sorry == "sorry, I cannot process this"

\* texts the model can answer with
OutputTexts ==
    {FullResult, PartialResult, Sorry, "42", "null", "true",
     "\"see brand_name\"", "[\"brand_name\"]"}

OkBodies ==
    {Envelope(<<Reasoning, Message(<<OutputText(t)>>)>>) : t \in OutputTexts}
    \cup {Envelope(<<Reasoning>>), JList(<<>>)}

StructuredError ==
    JDict(<<"error">>,
          <<JDict(<<"message", "type", "param", "code">>,
                  <<JStr("Incorrect API key provided"), JStr("invalid_request_error"),
                    None, JStr("invalid_api_key")>>)>>)

T10 == "0123456789"
T100 == T10 \o T10 \o T10 \o T10 \o T10 \o T10 \o T10 \o T10 \o T10 \o T10
T1000 == T100 \o T100 \o T100 \o T100 \o T100 \o T100 \o T100 \o T100 \o T100 \o T100
LongText == "<html>" \o T1000 \o "</html>"

\* what the API can answer to the extraction request
PostResponses ==
    JsonResponses({<<200, "OK", b>> : b \in OkBodies}
                  \cup {<<401, "Unauthorized", StructuredError>>,
                        <<500, "Internal Server Error",
                          JDict(<<"detail">>, <<JStr("overloaded")>>)>>})
    \cup {TextResponse(200, "OK", "<html>captive portal</html>"),
          TextResponse(502, "Bad Gateway", LongText),
          TransportError("Read timed out.")}

\* what the API can answer to the request of validate_api_key
ValidateResponses ==
    JsonResponses({<<200, "OK", JDict(<<"data">>, <<JList(<<>>)>>)>>,
                   <<401, "Unauthorized", StructuredError>>})
    \cup {TextResponse(429, "Too Many Requests", ""),
          TransportError("Connection refused")}

PngBytes == <<137, 80, 78, 71>>

\* what the host of an image URL can answer
FetchResponses ==
    {Response(200, "OK", ContentType("image/png"), PngBytes, ""),
     Response(200, "OK", ContentType("text/html; charset=utf-8"), <<>>, "<html></html>"),
     Response(200, "OK", NoHeaders, PngBytes, ""),
     Response(404, "Not Found", ContentType("image/png"), <<>>, ""),
     TransportError("Connection refused"),
     TransportError("")}

Keys == {"", "sk-test"}

File(type, data) == [t |-> "file", type |-> type, data |-> data]

Files == {File("image/png", <<>>), File("image/png", PngBytes), File("", <<255, 216>>)}

Urls == {"https://example.com/a.png",
         "https://drive.google.com/file/d/ABC/view?usp=sharing"}

Modes == {"Upload file", "Image URL"}

(***************************************************************************)
(* A wider range of answers of the API, for the runs of SpecExtract: the   *)
(* output list is built from at most MaxParts parts, each a content entry  *)
(* (added to the message that is open, or opening one) or an item.         *)
(***************************************************************************)
MaxParts == 3

Parts == {"text [1,", "text 2]", "text empty", "no text", "refusal", "message", "reasoning"}

SeqsUpTo(S, n) == UNION {[1..k -> S] : k \in 0..n}

PartEntry(part) ==
    CASE part = "text [1,"   -> OutputText("[1,")
      [] part = "text 2]"    -> OutputText("2]")
      [] part = "text empty" -> OutputText("")
      [] part = "no text"    -> JDict(<<"type">>, <<JStr("output_text")>>)
      [] part = "refusal"    -> Refusal("no")

\* the items so far, with the message that is open (if one is) closed
Closed(items, open, contents) ==
    IF open THEN Append(items, Message(contents)) ELSE items

RECURSIVE BuildOutput(_, _, _, _)
BuildOutput(parts, items, open, contents) ==
    IF parts = <<>> THEN Closed(items, open, contents)
    ELSE IF Head(parts) = "message"
         THEN BuildOutput(Tail(parts), Closed(items, open, contents), TRUE, <<>>)
    ELSE IF Head(parts) = "reasoning"
         THEN BuildOutput(Tail(parts), Append(Closed(items, open, contents), Reasoning),
                          FALSE, <<>>)
    ELSE BuildOutput(Tail(parts), items, TRUE,
                     Append(IF open THEN contents ELSE <<>>, PartEntry(Head(parts))))

GenBodies == {Envelope(BuildOutput(p, <<>>, FALSE, <<>>)) : p \in SeqsUpTo(Parts, MaxParts)}

GenResponses == JsonResponses({<<200, "OK", b>> : b \in GenBodies})

(***************************************************************************)
(* A wider range of image URLs, for the runs of SpecNorm: the share links  *)
(* of Google Drive with the file id in the path or in the query, on Drive  *)
(* and on other hosts.                                                     *)
(***************************************************************************)
Hosts == {"https://drive.google.com", "https://example.com",
          "https://drive.usercontent.google.com"}

FileIds == {"ABC", "1x_Y-9"}

Trails == {"/view", "/edit", "/preview"}

Queries == {"", "?usp=sharing", "?usp=drive_link&authuser=0",
            "?usp=sharing&ouid=1&rtpof=true&sd=true"}

QueryPaths == {"/open", "/uc"}

ParamLists(id) ==
    {<<"id=" \o id>>,
     <<"export=download", "id=" \o id>>,
     <<"id=" \o id, "export=download">>,
     <<"usp=sharing", "id=" \o id, "authuser=0">>,
     <<"export=download", "id=" \o id, "confirm=t", "uuid=7">>}

PathUrls ==
    {h \o "/file/d/" \o id \o t \o q : h \in Hosts, id \in FileIds, t \in Trails, q \in Queries}

QueryUrls ==
    UNION {{h \o qp \o "?" \o Join("&", ps) : h \in Hosts, qp \in QueryPaths,
                                             ps \in ParamLists(id)} : id \in FileIds}

GenUrls == PathUrls \cup QueryUrls

(***************************************************************************)
(* json.loads(s).  The texts the environment above can deliver, and the    *)
(* texts extract_output_text takes out of them, are decoded once, in       *)
(* Decoded; any other text is decoded when it is met.                      *)
(***************************************************************************)
ResponseTexts ==
    {r.text : r \in {x \in PostResponses \cup GenResponses \cup ValidateResponses :
                        x.kind = "response"}}

ExtractedTexts ==
    {x.value : x \in {y \in {extract_output_text(b) : b \in OkBodies \cup GenBodies} :
                         y.exc = ""}}

Decoded == [s \in ResponseTexts \cup ExtractedTexts |-> decode(s)]

Lookup(table, s) == IF s \in DOMAIN table THEN table[s] ELSE decode(s)

json_loads(s) == Lookup(Decoded, s)

\* resp.json()
RespJson(resp) == json_loads(resp.text)

\* lines 122-129: detail, for what resp.json() gave
ErrorDetail(resp, body) ==
    IF ~body.ok \/ body.val.t # "dict" THEN Prefix(resp.text, 1000)
    ELSE IF Get(body.val, "error", JDict(<<>>, <<>>)).t # "dict" THEN Prefix(resp.text, 1000)
    ELSE Strip(Format(Get(Get(body.val, "error", JDict(<<>>, <<>>)), "message", JStr("")))
               \o " (type="
               \o Format(Get(Get(body.val, "error", JDict(<<>>, <<>>)), "type", JStr("")))
               \o ", code="
               \o Format(Get(Get(body.val, "error", JDict(<<>>, <<>>)), "code", JStr("")))
               \o ")")

\* lines 130-132: hint
ErrorHint(resp) ==
    IF resp.status_code \in {401, 403, 404}
    THEN " This may be a model access issue; check your API tier and organization verification."
    ELSE ""

\* lines 120-134, for what resp.json() gives
Answer(resp, body) ==
    IF ~RespOk(resp)
    THEN Raise("RuntimeError",
               "HTTP " \o IntToStr(resp.status_code) \o " " \o resp.reason \o ": "
               \o ErrorDetail(resp, body) \o ErrorHint(resp))
    ELSE IF body.ok THEN Return(body.val)
    ELSE Raise("JSONDecodeError", "Expecting value")

\* lines 99-134, given what requests.post came back with
call_openai(api_key, system_prompt, user_prompt, image_url, resp) ==
    IF resp.kind = "exception" THEN Raise("RequestException", resp.msg)
    ELSE Answer(resp, RespJson(resp))

(***************************************************************************)
(* The state.  session_state is st.session_state, a function from the keys *)
(* it has to their values; the key "api_key_input" is the value of the     *)
(* text_input of the sidebar.  input_mode, uploaded_file, image_url_input  *)
(* are the values of the other widgets.  The remaining variables record    *)
(* what the last user action did:                                          *)
(*   screen    the elements its script run rendered, in order;             *)
(*   http_log  the HTTP requests it issued, in order;                      *)
(*   outcome   how the script run ended: [end |-> "completed"], [end |->   *)
(*             "stopped"] for st.stop(), or [end |-> "exception", exc,     *)
(*             block] for an exception nothing caught;                     *)
(*   action    the action and the answers the network gave during it;      *)
(*   last_good the response body and the text of the most recent run in    *)
(*             which call_openai and extract_output_text both returned.    *)
(***************************************************************************)
VARIABLES session_state, input_mode, uploaded_file, image_url_input,
          screen, http_log, outcome, action, last_good

vars == <<session_state, input_mode, uploaded_file, image_url_input,
          screen, http_log, outcome, action, last_good>>

\* ss[k] = v
Put(ss, k, v) == [x \in (DOMAIN ss) \cup {k} |-> IF x = k THEN v ELSE ss[x]]

Widget(fn, text) == [fn |-> fn, text |-> text]

JsonWidget(v) == [fn |-> "st.json", value |-> v]

DownloadButton(data) ==
    [fn |-> "st.download_button", label |-> "Download JSON", data |-> data,
     file_name |-> "extraction.json", mime |-> "application/json"]

Completes == [end |-> "completed"]

Stops == [end |-> "stopped"]

Raises(exc, block) == [end |-> "exception", exc |-> exc, block |-> block]

\* lines 209-213
Sidebar(ss) ==
    IF "api_key_ok" \in DOMAIN ss
    THEN IF ss["api_key_ok"]
         THEN <<Widget("st.success", ss["api_key_msg"])>>
         ELSE <<Widget("st.error", ss["api_key_msg"])>>
    ELSE <<>>

\* what a part of the script leaves: the local image_data_url, the elements
\* rendered, the requests issued, the exception that ends the run ("": none)
Input(image_data_url, rendered, http, exc) ==
    [image_data_url |-> image_data_url, screen |-> rendered, http |-> http, exc |-> exc]

\* lines 231-236, for the tuple fetch_image_url returned
Preview(request, fetched) ==
    IF Truthy(fetched[3])
    THEN Input(None, <<Widget("st.error", "Image preview failed: " \o fetched[3].s)>>,
               <<request>>, "")
    ELSE IF fetched[1] = None
         \* st.image(None), and at the latest b64encode(None), raises
         THEN Input(None, <<>>, <<request>>, "TypeError")
    ELSE Input(JStr("data:" \o fetched[2].s \o ";base64," \o b64encode(fetched[1].data)),
               <<Widget("st.image", "Image URL preview")>>, <<request>>, "")

\* lines 229-236
UrlInput(normalized, fetchResp) ==
    Preview(ImageRequest(normalized), fetch_image_url(normalized, fetchResp))

\* lines 217-236
InputBlock(mode, file, url, fetchResp) ==
    IF mode = "Upload file"
    THEN IF file # None
         THEN Input(file_to_data_url(file), <<Widget("st.image", "Uploaded image")>>, <<>>, "")
         ELSE Input(None, <<>>, <<>>, "")
    ELSE IF url # ""
         THEN UrlInput(normalize_drive_url(url), fetchResp)
         ELSE Input(None, <<>>, <<>>, "")

\* lines 245-254 without the check of the key: the variant
\* C7_NoApiRequestWithoutKey tells from the code
RunChecksWithoutKey(api_key, system_prompt, image_data_url) ==
    IF system_prompt = "" THEN "system_prompt is missing or empty."
    ELSE IF ~Truthy(image_data_url) THEN "Please provide a valid image before running."
    ELSE ""

\* lines 245-254 with the stored validation status checked as well: the
\* variant C8_ValidationAdvisory tells from the code
RunChecksValidated(api_key, system_prompt, image_data_url) ==
    IF api_key = "" THEN "OpenAI API key is required."
    ELSE IF "api_key_ok" \in DOMAIN session_state /\ ~session_state["api_key_ok"]
         THEN "OpenAI API key is not valid."
    ELSE IF system_prompt = "" THEN "system_prompt is missing or empty."
    ELSE IF ~Truthy(image_data_url) THEN "Please provide a valid image before running."
    ELSE ""

\* lines 245-254: the message of the check that stops the run, or ""
RunChecks(api_key, system_prompt, image_data_url) ==
    IF api_key = "" THEN "OpenAI API key is required."
    ELSE IF system_prompt = "" THEN "system_prompt is missing or empty."
    ELSE IF ~Truthy(image_data_url) THEN "Please provide a valid image before running."
    ELSE ""

\* lines 271-272 keeping the previous text when the new one is empty: the
\* variant C10_SlotHoldsLastResult tells from the code
StoreMerged(ss, response_json, output_text) ==
    Put(Put(ss, "last_response_json", response_json), "last_output_text",
        IF output_text = "" /\ "last_output_text" \in DOMAIN ss
        THEN ss["last_output_text"] ELSE output_text)

\* lines 271-272
StoreResult(ss, response_json, output_text) ==
    Put(Put(ss, "last_response_json", response_json), "last_output_text", output_text)

\* what the run block leaves: the session state, the elements rendered, the
\* requests issued, how it ends (Completes: the script goes on), and the
\* locals response_json and output_text when both were assigned
Ran(ss, rendered, http, end, got) ==
    [ss |-> ss, screen |-> rendered, http |-> http, end |-> end, got |-> got]

Got(response_json, output_text) ==
    [t |-> "result", response |-> response_json, text |-> output_text]

\* lines 270-272, for what extract_output_text did
Extracted(ss, request, response_json, output_text) ==
    IF output_text.exc # ""
    THEN Ran(ss, <<>>, <<request>>, Raises(output_text.exc, "run"), None)
    ELSE Ran(StoreResult(ss, response_json, output_text.value), <<>>, <<request>>,
             Completes, Got(response_json, output_text.value))

\* lines 259-272, for what call_openai did
Called(ss, request, called) ==
    IF called.exc # ""
    THEN Ran(ss, <<Widget("st.error", "API call failed: " \o called.msg)>>, <<request>>,
             Stops, None)
    ELSE Extracted(ss, request, called.value, extract_output_text(called.value))

\* lines 244-272 when run is true
RunBlock(ss, api_key, system_prompt, image_data_url, postResp) ==
    IF RunChecks(api_key, system_prompt, image_data_url) # ""
    THEN Ran(ss, <<Widget("st.error", RunChecks(api_key, system_prompt, image_data_url))>>,
             <<>>, Stops, None)
    ELSE Called(ss,
                ExtractionRequest(api_key, system_prompt, build_user_prompt, image_data_url.s),
                call_openai(api_key, system_prompt, build_user_prompt, image_data_url.s,
                            postResp))

\* k in parsed (line 284)
In(k, parsed) ==
    CASE parsed.t = "dict" -> Return(HasKey(parsed, k))
      [] parsed.t = "list" -> Return(\E i \in 1..Len(parsed.a) : IsStr(parsed.a[i], k))
      [] parsed.t = "str"  -> Return(Contains(parsed.s, k))
      [] OTHER -> Raise("TypeError", "argument is not iterable")

Shown(rendered, exc) == [screen |-> rendered, exc |-> exc]

\* lines 285-292
Report(parsed, missing) ==
    Shown(<<JsonWidget(parsed)>>
          \o (IF missing # <<>>
              THEN <<Widget("st.warning",
                            "JSON missing required fields: " \o Join(", ", missing))>>
              ELSE <<>>)
          \o <<DownloadButton(json_dumps(parsed))>>,
          "")

\* lines 283-292, for the value json.loads gave
ShowParsed(parsed) ==
    IF \E i \in 1..Len(required_fields) : In(required_fields[i], parsed).exc # ""
    THEN Shown(<<JsonWidget(parsed)>>, "TypeError")
    ELSE Report(parsed, SelectSeq(required_fields, LAMBDA k : ~In(k, parsed).value))

\* lines 281-295, for what json.loads did
Loaded(output_text, loaded) ==
    IF loaded.ok THEN ShowParsed(loaded.val)
    ELSE Shown(<<Widget("st.warning", "Output is not valid JSON. Showing raw text."),
                 Widget("st.code", output_text)>>, "")

\* lines 274-295
DisplayBlock(ss) ==
    IF "last_output_text" \notin DOMAIN ss THEN Shown(<<>>, "")
    ELSE IF ss["last_output_text"] = ""
         THEN Shown(<<Widget("st.warning",
                             "No output_text found in response. Showing raw response."),
                      JsonWidget(IF "last_response_json" \in DOMAIN ss
                                 THEN ss["last_response_json"] ELSE JDict(<<>>, <<>>))>>,
                    "")
    ELSE Loaded(ss["last_output_text"], json_loads(ss["last_output_text"]))

RunButton == Widget("st.button", "Run extraction")

\* what one run of the script leaves
Run(ss, rendered, http, end, got) ==
    [ss |-> ss, screen |-> rendered, http |-> http, outcome |-> end, got |-> got]

\* lines 274-295 and the end of the run
Display(ran, upto, http, shown) ==
    Run(ran.ss, upto \o shown.screen, http,
        IF shown.exc # "" THEN Raises(shown.exc, "display") ELSE Completes, ran.got)

\* the run from line 244, for what the run block did
AfterRun(upto, http, ran) ==
    IF ran.end # Completes
    THEN Run(ran.ss, upto \o ran.screen, http \o ran.http, ran.end, ran.got)
    ELSE Display(ran, upto \o ran.screen, http \o ran.http, DisplayBlock(ran.ss))

\* the run from line 238, for what lines 217-236 did: has_image, the button
\* and run, which is true when the run was started by a click on the button
AfterInput(ss, clicked, postResp, side, input) ==
    IF input.exc # ""
    THEN Run(ss, side \o input.screen, input.http, Raises(input.exc, "input"), None)
    ELSE AfterRun(side \o input.screen
                  \o (IF Truthy(input.image_data_url) THEN <<RunButton>> ELSE <<>>),
                  input.http,
                  IF Truthy(input.image_data_url) /\ clicked
                  THEN RunBlock(ss, ss["api_key_input"], SYSTEM_PROMPT, input.image_data_url,
                                postResp)
                  ELSE Ran(ss, <<>>, <<>>, Completes, None))

\* One run of the script, lines 195-295.  The title, caption, subheaders
\* and the input widgets themselves are rendered in every run and are left
\* out of screen.
ScriptRun(ss, mode, file, url, clicked, fetchResp, postResp) ==
    AfterInput(ss, clicked, postResp, Sidebar(ss), InputBlock(mode, file, url, fetchResp))

(***************************************************************************)
(* The user actions.  Each is followed by one run of the script; the whole *)
(* of it is one step.                                                      *)
(***************************************************************************)
HasPost(http) == \E i \in 1..Len(http) : http[i].method = "POST"

Answers(name, validateResp, fetchResp, postResp) ==
    [name |-> name, validateResp |-> validateResp, fetchResp |-> fetchResp,
     postResp |-> postResp]

\* the script runs after the user action `name'; `before' are the requests
\* of the callback that ran before it
Rerun(name, ss, mode, file, url, clicked, before, validateResp, fetchResp, postResp) ==
    /\ (mode = "Image URL" /\ url # "") = (fetchResp # NoResponse)
    /\ \E r \in {ScriptRun(ss, mode, file, url, clicked, fetchResp, postResp)} :
           /\ session_state' = r.ss
           /\ input_mode' = mode
           /\ uploaded_file' = file
           /\ image_url_input' = url
           /\ screen' = r.screen
           /\ http_log' = before \o r.http
           /\ outcome' = r.outcome
           /\ action' = Answers(name, validateResp, fetchResp,
                                IF HasPost(r.http) THEN postResp ELSE NoResponse)
           /\ last_good' = IF r.got = None THEN last_good ELSE r.got

FetchChoices == FetchResponses \cup {NoResponse}

\* lines 189-192, given what the request of validate_api_key came back with
update_api_key_status(ss, validateResp) ==
    Put(Put(ss, "api_key_ok", validate_api_key(ss["api_key_input"], validateResp)[1]),
        "api_key_msg", validate_api_key(ss["api_key_input"], validateResp)[2])

\* the user changes the API key: on_change runs update_api_key_status, then
\* the script runs
EditApiKey(KeySet, FetchSet) ==
    \E k \in KeySet, validateResp \in ValidateResponses \cup {NoResponse}, fetchResp \in FetchSet :
        /\ k # session_state["api_key_input"]
        /\ (k = "") = (validateResp = NoResponse)
        /\ Rerun("EditApiKey",
                 update_api_key_status(Put(session_state, "api_key_input", k), validateResp),
                 input_mode, uploaded_file, image_url_input, FALSE,
                 IF k = "" THEN <<>> ELSE <<ValidationRequest(k)>>,
                 validateResp, fetchResp, NoResponse)

\* the user picks the other input mode; its widget starts empty
SelectMode ==
    \E m \in Modes :
        /\ m # input_mode
        /\ Rerun("SelectMode", session_state, m, None, "", FALSE, <<>>,
                 NoResponse, NoResponse, NoResponse)

\* the user uploads a file, or removes the uploaded one
UploadFile(FileSet) ==
    \E f \in FileSet \cup {None} :
        /\ input_mode = "Upload file"
        /\ f # uploaded_file
        /\ Rerun("UploadFile", session_state, input_mode, f, "", FALSE, <<>>,
                 NoResponse, NoResponse, NoResponse)

\* the user enters an image URL, or clears it
EditUrl(UrlSet, FetchSet) ==
    \E u \in UrlSet \cup {""}, fetchResp \in FetchSet :
        /\ input_mode = "Image URL"
        /\ u # image_url_input
        /\ Rerun("EditUrl", session_state, input_mode, None, u, FALSE, <<>>,
                 NoResponse, fetchResp, NoResponse)

ButtonShown == \E i \in 1..Len(screen) : screen[i] = RunButton

\* the user clicks "Run extraction", which the last run rendered
PressRun(FetchSet, PostSet) ==
    /\ ButtonShown
    /\ \E fetchResp \in FetchSet, postResp \in PostSet :
           Rerun("PressRun", session_state, input_mode, uploaded_file, image_url_input,
                 TRUE, <<>>, NoResponse, fetchResp, postResp)

\* the state after the first run of the script, with every widget empty
Init ==
    /\ session_state = [k \in {"api_key_input"} |-> ""]
    /\ input_mode = "Upload file"
    /\ uploaded_file = None
    /\ image_url_input = ""
    /\ screen = <<>>
    /\ http_log = <<>>
    /\ outcome = Completes
    /\ action = Answers("Open", NoResponse, NoResponse, NoResponse)
    /\ last_good = None

Next ==
    \/ EditApiKey(Keys, FetchChoices)
    \/ SelectMode
    \/ UploadFile(Files)
    \/ EditUrl(Urls, FetchChoices)
    \/ PressRun(FetchChoices, PostResponses)

Spec == Init /\ [][Next]_vars

(***************************************************************************)
(* SpecExtract: the first extraction of a session that has a key and an    *)
(* uploaded image, over the wider range of answers.                        *)
(***************************************************************************)
ReadySession ==
    [k \in {"api_key_input", "api_key_ok", "api_key_msg"} |->
        CASE k = "api_key_input" -> "sk-test"
          [] k = "api_key_ok"    -> TRUE
          [] k = "api_key_msg"   -> "API key looks valid"]

InitReady ==
    /\ session_state = ReadySession
    /\ input_mode = "Upload file"
    /\ uploaded_file = File("image/png", PngBytes)
    /\ image_url_input = ""
    /\ screen = <<Widget("st.success", "API key looks valid"),
                  Widget("st.image", "Uploaded image"), RunButton>>
    /\ http_log = <<>>
    /\ outcome = Completes
    /\ action = Answers("UploadFile", NoResponse, NoResponse, NoResponse)
    /\ last_good = None

FirstRun ==
    /\ "last_output_text" \notin DOMAIN session_state
    /\ PressRun({NoResponse}, GenResponses)

SpecExtract == InitReady /\ [][FirstRun]_vars

(***************************************************************************)
(* SpecNorm: the first image URL entered in "Image URL" mode, over the     *)
(* wider range of URLs.                                                    *)
(***************************************************************************)
InitUrlMode ==
    /\ session_state = [k \in {"api_key_input"} |-> ""]
    /\ input_mode = "Image URL"
    /\ uploaded_file = None
    /\ image_url_input = ""
    /\ screen = <<>>
    /\ http_log = <<>>
    /\ outcome = Completes
    /\ action = Answers("SelectMode", NoResponse, NoResponse, NoResponse)
    /\ last_good = None

FirstUrl ==
    /\ image_url_input = ""
    /\ EditUrl(GenUrls, FetchResponses)

SpecNorm == InitUrlMode /\ [][FirstUrl]_vars

(***************************************************************************)
(* The properties.                                                         *)
(***************************************************************************)
RenderedIn(elements, w) == \E i \in 1..Len(elements) : elements[i] = w

Rendered(w) == RenderedIn(screen, w)

RenderedFn(fn) == \E i \in 1..Len(screen) : screen[i].fn = fn

HasSlot == "last_output_text" \in DOMAIN session_state

SlotText == session_state["last_output_text"]

SlotResponse == session_state["last_response_json"]

\* the run got as far as the display block (line 274)
DisplayRan ==
    \/ outcome = Completes
    \/ outcome.end = "exception" /\ outcome.block = "display"

\* C1: for every non-empty text in the slot, the display block ends without
\* an exception in exactly one of two ways: the text decodes as JSON and the
\* decoded value is shown, or it does not and the raw text is shown.
C1_DisplayNeverRaises ==
    (HasSlot /\ SlotText # "" /\ DisplayRan) =>
        /\ outcome = Completes
        /\ IF decode(SlotText).ok
           THEN Rendered(JsonWidget(decode(SlotText).val)) /\ ~RenderedFn("st.code")
           ELSE Rendered(Widget("st.code", SlotText)) /\ ~RenderedFn("st.json")

\* C1: the text 42 is in the slot and the display block raised TypeError.
C1_NumberRaises ==
    HasSlot /\ SlotText = "42" /\ outcome = Raises("TypeError", "display")

\* the keys of a decoded result: those of an object, none for any other value
KeysOf(v) == IF v.t = "dict" THEN {v.keys[i] : i \in 1..Len(v.keys)} ELSE {}

MissingOf(v) == SelectSeq(required_fields, LAMBDA k : k \notin KeysOf(v))

MissingWarning(v) ==
    Widget("st.warning", "JSON missing required fields: " \o Join(", ", MissingOf(v)))

\* C2: when the text of the slot decodes and the display block completes,
\* the decoded value is shown and offered for download, and the warning
\* names exactly the required keys that are not keys of the decoded value
\* (no warning when there is none).
C2_MissingKeysExact ==
    (HasSlot /\ SlotText # "" /\ outcome = Completes /\ decode(SlotText).ok) =>
        /\ Rendered(JsonWidget(decode(SlotText).val))
        /\ Rendered(DownloadButton(json_dumps(decode(SlotText).val)))
        /\ MissingOf(decode(SlotText).val) # <<>> => Rendered(MissingWarning(decode(SlotText).val))
        /\ \A i \in 1..Len(screen) :
               screen[i].fn = "st.warning" =>
                   /\ MissingOf(decode(SlotText).val) # <<>>
                   /\ screen[i] = MissingWarning(decode(SlotText).val)

\* C2: the decoded value is the list ["brand_name"], which has no keys, and
\* the warning does not name brand_name.
C2_ListElementTakenForKey ==
    /\ HasSlot /\ SlotText = "[\"brand_name\"]" /\ outcome = Completes
    /\ Rendered(Widget("st.warning",
                       "JSON missing required fields: flavors_list, multiple_descriptors, "
                       \o "extraction_evidence, nicotine_content, size_or_volume, "
                       \o "warning_label_present, warning_label_location, main_color"))

Canonical(id) == "https://drive.google.com/uc?export=download&id=" \o id

\* the part of a URL before the query string, and the query string
PathOf(u) == First(Split(u, "?"))

QueryOf(u) ==
    IF Contains(u, "?") THEN SubSeq(u, Min(Occurrences(u, "?")) + 1, Len(u)) ELSE ""

\* the parameters of the query string that are named id
IdParams(u) == SelectSeq(Split(QueryOf(u), "&"), LAMBDA p : StartsWith(p, "id="))

\* the file id of a share link: the path segment after /file/d/, or the
\* value of the query parameter id; "" if the link has neither
FileIdOf(u) ==
    IF Contains(PathOf(u), "/file/d/")
    THEN First(Split(Split(PathOf(u), "/file/d/")[2], "/"))
    ELSE IF IdParams(u) # <<>> THEN SubSeq(IdParams(u)[1], 4, Len(IdParams(u)[1]))
    ELSE ""

\* C3: the URL requested for an entered image URL is the canonical download
\* URL of its file id when the URL is a Drive share link of either form,
\* and the entered URL itself when it does not contain drive.google.com.
C3_Canonical ==
    image_url_input # "" =>
        http_log[1].url =
            IF Contains(image_url_input, "drive.google.com") /\ FileIdOf(image_url_input) # ""
            THEN Canonical(FileIdOf(image_url_input))
            ELSE image_url_input

\* C3: a path-segment share link of the file ABC whose query string has the
\* parameter ouid=1 is requested as the download URL of a file 1.
C3_OtherParameterTakenForId ==
    /\ image_url_input =
           "https://drive.google.com/file/d/ABC/view?usp=sharing&ouid=1&rtpof=true&sd=true"
    /\ http_log[1].url = Canonical("1")

\* the last action was a click on Run whose extraction request got a
\* response with a non-success status
FailedPost ==
    action.name = "PressRun" /\ action.postResp.kind = "response" /\ ~RespOk(action.postResp)

\* a body is a structured error when it is a JSON object with an object 'error'
IsStructuredError(body) ==
    /\ body.ok /\ body.val.t = "dict"
    /\ HasKey(body.val, "error") /\ Item(body.val, "error").t = "dict"

StructuredDetail(err) ==
    Strip(Format(Get(err, "message", JStr(""))) \o " (type=" \o Format(Get(err, "type", JStr("")))
          \o ", code=" \o Format(Get(err, "code", JStr(""))) \o ")")

ExpectedDetail(resp) ==
    IF IsStructuredError(decode(resp.text))
    THEN StructuredDetail(Item(decode(resp.text).val, "error"))
    ELSE Prefix(resp.text, 1000)

ExpectedHint(resp) ==
    IF resp.status_code \in {401, 403, 404}
    THEN " This may be a model access issue; check your API tier and organization verification."
    ELSE ""

\* C4: after a non-success response to the extraction request the run is
\* stopped with the message "HTTP <status> <reason>: <detail><hint>", where
\* detail is the message, type and code of a structured error, and else the
\* raw text cut to 1000 characters, and hint is there exactly for the
\* statuses 401, 403 and 404.
C4_Diagnostic ==
    FailedPost =>
        /\ outcome = Stops
        /\ Rendered(Widget("st.error",
                           "API call failed: HTTP " \o IntToStr(action.postResp.status_code)
                           \o " " \o action.postResp.reason \o ": "
                           \o ExpectedDetail(action.postResp) \o ExpectedHint(action.postResp)))

\* C4: a status 500 with the JSON body {"detail":"overloaded"} is reported
\* with the detail "(type=, code=)" instead of the text of the body.
C4_EmptyDetail ==
    /\ FailedPost /\ action.postResp.status_code = 500
    /\ Rendered(Widget("st.error",
                       "API call failed: HTTP 500 Internal Server Error: (type=, code=)"))

\* the texts of the 'output_text' entries of a content list, in order
TextsOf(contents) ==
    [i \in 1..Len(SelectSeq(contents, LAMBDA c : IsStr(Get(c, "type", None), "output_text"))) |->
        Get(SelectSeq(contents, LAMBDA c : IsStr(Get(c, "type", None), "output_text"))[i],
            "text", JStr("")).s]

\* the text fragments of an output list: the texts of the 'output_text'
\* entries of its 'message' items, in response order
RECURSIVE Fragments(_)
Fragments(items) ==
    IF items = <<>> THEN <<>>
    ELSE (IF IsStr(Get(Head(items), "type", None), "message")
          THEN TextsOf(Get(Head(items), "content", JList(<<>>)).a)
          ELSE <<>>)
         \o Fragments(Tail(items))

SlotFragments == Fragments(Get(SlotResponse, "output", JList(<<>>)).a)

NonEmpty(texts) == SelectSeq(texts, LAMBDA t : t # "")

\* the raw response is shown with a warning, and nothing was decoded
RawResponseShown ==
    /\ Rendered(Widget("st.warning", "No output_text found in response. Showing raw response."))
    /\ Rendered(JsonWidget(SlotResponse))
    /\ ~RenderedFn("st.code") /\ ~RenderedFn("st.download_button")
    /\ \A i \in 1..Len(screen) : screen[i].fn = "st.json" => screen[i].value = SlotResponse

EmptyUpload ==
    input_mode = "Upload file" /\ uploaded_file # None /\ uploaded_file.data = <<>>

ValidImageError == Widget("st.error", "Please provide a valid image before running.")

\* C6: while an uploaded file of 0 bytes is selected, the loader gives None,
\* the error "Please provide a valid image before running." is shown, and
\* no extraction request has been issued.
C6_EmptyUploadRejected ==
    EmptyUpload =>
        /\ file_to_data_url(uploaded_file) = None
        /\ Rendered(ValidImageError)
        /\ ~HasPost(http_log)

\* C6: a file of 0 bytes is selected; neither the Run button nor the error
\* is shown.
C6_NothingShown ==
    EmptyUpload /\ ~Rendered(RunButton) /\ ~Rendered(ValidImageError)

\* the result slot of a session state
SlotOf(ss) == [k \in (DOMAIN ss) \cap {"last_response_json", "last_output_text"} |-> ss[k]]

KeyError == Widget("st.error", "OpenAI API key is required.")

\* a step that is a click on Run while the API key is empty
KeylessRun == action'.name = "PressRun" /\ session_state'["api_key_input"] = ""

\* C7, as stated: a click on Run while the API key is empty issues no HTTP
\* request at all, shows the blocking error, stops the run and leaves the
\* result slot unchanged.
C7_NoRequestWithoutKey ==
    [][KeylessRun =>
           /\ http_log' = <<>>
           /\ RenderedIn(screen', KeyError) /\ outcome' = Stops
           /\ SlotOf(session_state') = SlotOf(session_state)]_vars

\* C7, amended: a click on Run while the API key is empty issues no request
\* to the API and leaves the result slot unchanged; the only request of the
\* step is, in "Image URL" mode, the GET that fetches the image again; when
\* that run has the image, the blocking error is shown and the run stopped.
C7_NoApiRequestWithoutKey ==
    [][KeylessRun =>
           /\ http_log' = IF input_mode' = "Image URL"
                          THEN <<ImageRequest(normalize_drive_url(image_url_input'))>>
                          ELSE <<>>
           /\ SlotOf(session_state') = SlotOf(session_state)
           /\ RenderedIn(screen', RunButton) =>
                  RenderedIn(screen', KeyError) /\ outcome' = Stops
           /\ ~RenderedIn(screen', RunButton) => ~RenderedIn(screen', KeyError)]_vars

\* C7: Run was clicked in "Image URL" mode with an empty key: the image was
\* fetched again, and the blocking error is shown.
C7_ImageFetchedAgain ==
    /\ action.name = "PressRun" /\ session_state["api_key_input"] = ""
    /\ input_mode = "Image URL"
    /\ http_log = <<ImageRequest(normalize_drive_url(image_url_input))>>
    /\ Rendered(KeyError) /\ outcome = Stops

\* C8: a click on Run issues the extraction request exactly when the key is
\* not empty and the run has an image, whatever the stored validation status.
C8_ValidationAdvisory ==
    action.name = "PressRun" =>
        (HasPost(http_log) <=> (session_state["api_key_input"] # "" /\ Rendered(RunButton)))

\* C8: the extraction request was issued with a key that validation had
\* found invalid.
C8_InvalidKeyStillPosts ==
    /\ action.name = "PressRun" /\ HasPost(http_log)
    /\ "api_key_ok" \in DOMAIN session_state /\ ~session_state["api_key_ok"]
    /\ session_state["api_key_msg"] = "Invalid API key"
    /\ Rendered(Widget("st.error", "Invalid API key"))

\* the last run fetched an image URL and the fetch was an error case: a
\* transport exception, a non-success status, or a Content-Type that does
\* not start with image/
FetchFailed ==
    /\ input_mode = "Image URL" /\ image_url_input # ""
    /\ \/ action.fetchResp.kind = "exception"
       \/ ~RespOk(action.fetchResp)
       \/ ~StartsWith(Get(action.fetchResp.headers, "Content-Type", JStr("")).s, "image/")

FetchedNow == fetch_image_url(normalize_drive_url(image_url_input), action.fetchResp)

\* C9: in every error case of the fetch, fetch_image_url returns (None,
\* None, error), the error is shown inline, the input block ends without an
\* exception, the Run button is not offered and no extraction request is
\* issued.
C9_FetchErrorSurfaced ==
    FetchFailed =>
        /\ FetchedNow[1] = None /\ FetchedNow[2] = None /\ FetchedNow[3] # None
        /\ Rendered(Widget("st.error", "Image preview failed: " \o FetchedNow[3].s))
        /\ ~(outcome.end = "exception" /\ outcome.block = "input")
        /\ ~Rendered(RunButton) /\ ~HasPost(http_log)

\* C9: the fetch raised an exception whose text is empty; no error is
\* shown, and the run ended in an exception.
C9_EmptyErrorNotSurfaced ==
    /\ FetchFailed /\ action.fetchResp = TransportError("")
    /\ ~RenderedFn("st.error") /\ outcome = Raises("TypeError", "input")

\* C10: the result slot is there exactly when some run got a response and
\* extracted its text, and then it holds the response and the text of the
\* most recent such run, the text being the one extracted from the response.
C10_SlotHoldsLastResult ==
    /\ (DOMAIN session_state) \cap {"last_response_json", "last_output_text"}
           \in {{}, {"last_response_json", "last_output_text"}}
    /\ HasSlot <=> last_good # None
    /\ HasSlot =>
           /\ SlotResponse = last_good.response
           /\ SlotText = last_good.text
           /\ extract_output_text(SlotResponse) = Return(SlotText)

\* C10: a run aborted by a 401 of the API left the result of an earlier run
\* in the slot.
C10_AbortKeepsPrevious ==
    /\ action.name = "PressRun" /\ action.postResp.kind = "response"
    /\ action.postResp.status_code = 401 /\ outcome = Stops
    /\ HasSlot /\ SlotText = FullResult

====
